---------------------------- MODULE Spec2Model ----------------------------
(***************************************************************************)
(* Model of VulkanApiOutputGenerator (vulkan_api_generator.py): the        *)
(* per-feature accumulation driven by the registry walk (beginFile,        *)
(* beginFeature, genCmd, endFeature, endFile) and the extension list code  *)
(* that endFile emits and that a consumer later runs with a display-server *)
(* selector (sys.argv[1]).                                                 *)
(*                                                                         *)
(* Python values: None is the string "<None>", an attribute that was never *)
(* assigned is "<unset>", a list is a sequence, the output file is the     *)
(* sequence of write() calls.  A raised exception is kept in err and ends  *)
(* the run.                                                                *)
(***************************************************************************)
EXTENDS Naturals, Sequences, FiniteSets

None  == "<None>"
Unset == "<unset>"

\* Bounds of the model.
MaxFeatures == 2    \* beginFeature calls, and endFeature calls, in one run
MaxCmds     == 2    \* genCmd calls in one run
MaxNames    == 2    \* length of the feature name lists drawn for PartSpec

-----------------------------------------------------------------------------
(* Strings.  A string is kept as a TLA+ string; Chars gives its characters *)
(* so that slicing (proto_name[2:]) and substring tests ('win32' in ext)   *)
(* are computed on the characters.                                         *)
Chars(s) ==
    CASE s = "VK_VERSION_1_0" -> <<"V","K","_","V","E","R","S","I","O","N","_","1","_","0">>
      [] s = "VK_KHR_surface" -> <<"V","K","_","K","H","R","_","s","u","r","f","a","c","e">>
      [] s = "VK_KHR_swapchain" -> <<"V","K","_","K","H","R","_","s","w","a","p","c","h","a","i","n">>
      [] s = "VK_KHR_display_swapchain" -> <<"V","K","_","K","H","R","_","d","i","s","p","l","a","y","_","s","w","a","p","c","h","a","i","n">>
      [] s = "VK_KHR_win32_surface" -> <<"V","K","_","K","H","R","_","w","i","n","3","2","_","s","u","r","f","a","c","e">>
      [] s = "VK_NV_win32_keyed_mutex" -> <<"V","K","_","N","V","_","w","i","n","3","2","_","k","e","y","e","d","_","m","u","t","e","x">>
      [] s = "VK_KHR_android_surface" -> <<"V","K","_","K","H","R","_","a","n","d","r","o","i","d","_","s","u","r","f","a","c","e">>
      [] s = "VK_ANDROID_native_buffer" -> <<"V","K","_","A","N","D","R","O","I","D","_","n","a","t","i","v","e","_","b","u","f","f","e","r">>
      [] s = "VK_KHR_xcb_surface" -> <<"V","K","_","K","H","R","_","x","c","b","_","s","u","r","f","a","c","e">>
      [] s = "VK_KHR_xlib_surface" -> <<"V","K","_","K","H","R","_","x","l","i","b","_","s","u","r","f","a","c","e">>
      [] s = "VK_KHR_wayland_surface" -> <<"V","K","_","K","H","R","_","w","a","y","l","a","n","d","_","s","u","r","f","a","c","e">>
      [] s = "VK_KHR_mir_surface" -> <<"V","K","_","K","H","R","_","m","i","r","_","s","u","r","f","a","c","e">>
      [] s = "VK_EXT_acquire_xlib_display" -> <<"V","K","_","E","X","T","_","a","c","q","u","i","r","e","_","x","l","i","b","_","d","i","s","p","l","a","y">>
      [] s = "VK_EXT_debug_report" -> <<"V","K","_","E","X","T","_","d","e","b","u","g","_","r","e","p","o","r","t">>
      [] s = "VK_X_android_win32" -> <<"V","K","_","X","_","a","n","d","r","o","i","d","_","w","i","n","3","2">>
      [] s = "VK_X_xcb_android" -> <<"V","K","_","X","_","x","c","b","_","a","n","d","r","o","i","d">>
      [] s = "VK_KHR_xlib" -> <<"V","K","_","K","H","R","_","x","l","i","b">>
      [] s = "win32" -> <<"w","i","n","3","2">>
      [] s = "android" -> <<"a","n","d","r","o","i","d">>
      [] s = "xlib_" -> <<"x","l","i","b","_">>
      [] s = "xcb_" -> <<"x","c","b","_">>
      [] s = "wayland_" -> <<"w","a","y","l","a","n","d","_">>
      [] s = "mir_" -> <<"m","i","r","_">>
      [] s = "vkCreateInstance" -> <<"v","k","C","r","e","a","t","e","I","n","s","t","a","n","c","e">>
      [] s = "vkCreateFence" -> <<"v","k","C","r","e","a","t","e","F","e","n","c","e">>
      [] s = "vkWaitForFences" -> <<"v","k","W","a","i","t","F","o","r","F","e","n","c","e","s">>
      [] s = "vk" -> <<"v","k">>
      [] s = "x" -> <<"x">>
      [] s = "glFinish" -> <<"g","l","F","i","n","i","s","h">>

\* Python `sub in s` for two strings given by their characters.
Contains(sub, s) ==
    \E i \in 0..Len(s) :
        /\ i + Len(sub) <= Len(s)
        /\ SubSeq(s, i + 1, i + Len(sub)) = sub

\* Python `x in l` for a list l.
InList(x, l) == \E i \in 1..Len(l) : l[i] = x

\* StripPrefix that strips only a leading 'vk'.
StripPrefix_ifVk(s) ==
    IF Len(s) >= 2 /\ SubSeq(s, 1, 2) = << "v", "k" >> THEN SubSeq(s, 3, Len(s)) ELSE s

\* Python s[2:] on the characters of s.
StripPrefix(s) == SubSeq(s, 3, Len(s))

-----------------------------------------------------------------------------
(* The registry the generator reads (self.registry.tree).  It does not     *)
(* change during a run.                                                    *)
(* A <type> element: name = text of its <name> child (None: no such        *)
(* child), attr_name = its name attribute, category = its category         *)
(* attribute, type = text of its <type> child.                             *)
TypeTable == <<
    [name |-> None, attr_name |-> "uint32_t", category |-> None, type |-> None],
    [name |-> "VkInstance", attr_name |-> None, category |-> "handle",
     type |-> "VK_DEFINE_HANDLE"],
    [name |-> "VkDevice", attr_name |-> None, category |-> "handle",
     type |-> "VK_DEFINE_HANDLE"],
    [name |-> "VkFence", attr_name |-> None, category |-> "handle",
     type |-> "VK_DEFINE_NON_DISPATCHABLE_HANDLE"],
    [name |-> None, attr_name |-> "VkInstanceCreateInfo", category |-> "struct",
     type |-> None],
    [name |-> None, attr_name |-> "VkSurfaceKHR", category |-> "handle",
     type |-> "VK_DEFINE_NON_DISPATCHABLE_HANDLE"] >>

\* A <param> element is the sequence of its children.
Param(ty, nm) == << [tag |-> "type", text |-> ty], [tag |-> "name", text |-> nm] >>

\* The <command> elements of the registry.
Commands == {
    [name |-> "vkCreateInstance", proto_type |-> "VkResult",
     params |-> << Param("VkInstanceCreateInfo", "pInfo"),
                   Param("VkInstance", "pInstance") >>],
    [name |-> "vkCreateFence", proto_type |-> "VkResult",
     params |-> << Param("VkDevice", "device"),
                   Param("VkAllocationCallbacks", "pAllocator"),
                   Param("VkFence", "pFence") >>],
    [name |-> "vkWaitForFences", proto_type |-> "VkResult",
     params |-> << Param("VkInstance", "instance"),
                   Param("uint32_t", "fenceCount"),
                   Param("VkFence", "pFences"),
                   Param("VkSurfaceKHR", "surface"),
                   Param("VkFence", "pFences") >>] }

\* <command> elements whose name does not carry the 'vk' prefix, or is no
\* longer than the prefix.
OddCommands == {
    [name |-> "glFinish", proto_type |-> "void", params |-> << >>],
    [name |-> "vk", proto_type |-> "void", params |-> << Param("VkDevice", "device") >>],
    [name |-> "x", proto_type |-> "void", params |-> << >>] }

\* The <feature>/<extension> elements handed to beginFeature: name and protect.
Features == {
    [name |-> "VK_VERSION_1_0", protect |-> None],
    [name |-> "VK_KHR_win32_surface", protect |-> "VK_USE_PLATFORM_WIN32_KHR"],
    [name |-> "VK_EXT_debug_report", protect |-> None] }

\* Feature names the partition of endFile is exercised on (PartSpec).
PartNames == {
    "VK_VERSION_1_0", "VK_KHR_surface", "VK_KHR_display_swapchain",
    "VK_KHR_win32_surface", "VK_NV_win32_keyed_mutex",
    "VK_KHR_android_surface", "VK_ANDROID_native_buffer",
    "VK_KHR_xcb_surface", "VK_KHR_mir_surface", "VK_EXT_acquire_xlib_display",
    "VK_EXT_debug_report", "VK_X_android_win32", "VK_X_xcb_android",
    "VK_KHR_xlib" }

\* Values of sys.argv[1] the emitted list code is run with.
Selectors == { "Win32", "Xcb", "Xlib", "Wayland", "Mir", "Display", "Android",
               "win32", "Headless" }

-----------------------------------------------------------------------------
(* Type classifier                                                         *)

\* getTypeCategory: the category attribute of the first <type> whose <name>
\* child text or whose name attribute is typename; None when there is none.
getTypeCategory(typename) ==
    LET hit(elem) == \/ (elem.name # None /\ elem.name = typename)
                     \/ elem.attr_name = typename
        found == SelectSeq(TypeTable, hit)
    IN  IF found = << >> THEN None ELSE Head(found).category

\* isHandleTypeNonDispatchable with the macro test inverted.
isHandleTypeNonDispatchable_inverted(handletype) ==
    LET hit(elem) == elem.name = handletype /\ elem.category = "handle"
        found == SelectSeq(TypeTable, hit)
    IN  /\ found # << >>
        /\ Head(found).type # "VK_DEFINE_NON_DISPATCHABLE_HANDLE"

\* isHandleTypeNonDispatchable: find("types/type/[name='T'][@category='handle']")
\* is the first <type> with a <name> child of text T and category 'handle'.
isHandleTypeNonDispatchable(handletype) ==
    LET hit(elem) == elem.name = handletype /\ elem.category = "handle"
        found == SelectSeq(TypeTable, hit)
    IN  /\ found # << >>
        /\ Head(found).type = "VK_DEFINE_NON_DISPATCHABLE_HANDLE"

-----------------------------------------------------------------------------
(* Command parameter extractor                                             *)

\* generator.noneStr: '' for None.
noneStr(s) == IF s = None THEN "" ELSE s

RECURSIVE TypeNameLoop(_, _, _)
TypeNameLoop(elems, type, name) ==
    IF elems = << >> THEN << type, name >>
    ELSE LET elem == Head(elems)
         IN  IF elem.tag = "type"
             THEN TypeNameLoop(Tail(elems), noneStr(elem.text), name)
             ELSE IF elem.tag = "name"
                  THEN TypeNameLoop(Tail(elems), type, noneStr(elem.text))
                  ELSE TypeNameLoop(Tail(elems), type, name)

\* getTypeNameTuple: (type, name) of a <param>.
getTypeNameTuple(param) == TypeNameLoop(param, "", "")

\* paramsInfo of genCmd: one (type, name) per <param>, in order.
RECURSIVE ParamsInfo(_)
ParamsInfo(params) ==
    IF params = << >> THEN << >>
    ELSE << getTypeNameTuple(Head(params)) >> \o ParamsInfo(Tail(params))

-----------------------------------------------------------------------------
VARIABLES
    pc,                       \* "new", "run", "ended" (endFile done), "selected"
    err,                      \* "none", or the exception that ended the run
    featureName,              \* OutputGenerator.featureName
    featureExtraProtect,      \* OutputGenerator.featureExtraProtect
    commands,                 \* self.commands
    dispatchable_objects,     \* self.dispatchable_objects
    non_dispatchable_objects, \* self.non_dispatchable_objects
    feature_objects,          \* self.feature_objects
    feature_protos,           \* self.feature_protos, the pieces appended to it
    feature_names,            \* self.feature_names
    out,                      \* self.outFile: the write() calls so far
    script,                   \* the lists of the emitted extension list code
    last                      \* history: the hook called last

vars == << pc, err, featureName, featureExtraProtect, commands,
           dispatchable_objects, non_dispatchable_objects, feature_objects,
           feature_protos, feature_names, out, script, last >>

registry == << dispatchable_objects, non_dispatchable_objects, feature_names >>
buffers  == << feature_objects, feature_protos >>

NoScript ==
    [android_wsi_exts |-> << >>, linux_wsi_exts |-> << >>, win32_wsi_exts |-> << >>,
     android_only_exts |-> << >>, linux_only_exts |-> << >>, win32_only_exts |-> << >>,
     common_exts |-> << >>, non_exported_exts |-> << >>,
     extensions |-> << >>, extensions_all |-> << >>, argv1 |-> Unset]

\* State after VulkanApiOutputGenerator() is constructed.  featureName is set
\* to None by OutputGenerator.__init__; featureExtraProtect is first assigned
\* by OutputGenerator.beginFeature.
Init ==
    /\ pc = "new"
    /\ err = "none"
    /\ featureName = None
    /\ featureExtraProtect = Unset
    /\ commands = << >>
    /\ dispatchable_objects = << >>
    /\ non_dispatchable_objects = << >>
    /\ feature_objects = << >>
    /\ feature_protos = << >>
    /\ feature_names = << >>
    /\ out = << >>
    /\ script = NoScript
    /\ last = "__init__"

-----------------------------------------------------------------------------
(* OutputGenerator (generator.py), the base class the hooks call into.     *)

\* OutputGenerator.beginFeature records the feature's name and protect.
OutputGenerator_beginFeature(interface) ==
    [featureName |-> interface.name, featureExtraProtect |-> interface.protect]

\* OutputGenerator.endFeature: no feature is open afterwards.
OutputGenerator_endFeature ==
    [featureName |-> None, featureExtraProtect |-> None]

\* OutputGenerator.genCmd validates that a feature is open; FALSE: it raises.
OutputGenerator_genCmd(fname) == fname # None

-----------------------------------------------------------------------------
(* Hooks                                                                   *)

\* The write() calls of beginFile (prefixText is None: nothing is prefixed).
BeginFileWrites ==
    << [w |-> "file_comment"], [w |-> "copyright"], [w |-> "param_class"],
       [w |-> "proto_class"], [w |-> "extension_class"] >>

beginFile ==
    /\ pc = "new"
    /\ err = "none"
    /\ last' = "beginFile"
    /\ pc' = "run"
    /\ out' = out \o BeginFileWrites
    /\ UNCHANGED << err, featureName, featureExtraProtect, commands, registry,
                    buffers, script >>

\* Number of feature headers written so far.
NumBegun(o) == Len(SelectSeq(o, LAMBDA x : x.w = "feature"))

\* beginFeature that also starts the global object lists afresh.
beginFeature_resetsRegistry(interface) ==
    /\ pc = "run"
    /\ err = "none"
    /\ last' = "beginFeature"
    /\ NumBegun(out) < MaxFeatures
    /\ LET og == OutputGenerator_beginFeature(interface)
       IN  /\ featureName' = og.featureName
           /\ featureExtraProtect' = og.featureExtraProtect
           /\ feature_objects' = << >>
           /\ feature_protos' = << >>
           /\ dispatchable_objects' = << >>
           /\ non_dispatchable_objects' = << >>
           /\ out' = Append(out, [w |-> "feature", name |-> og.featureName])
    /\ UNCHANGED << pc, err, commands, feature_names, script >>

\* beginFeature that forgets to reset feature_protos.
beginFeature_noProtoReset(interface) ==
    /\ pc = "run"
    /\ err = "none"
    /\ last' = "beginFeature"
    /\ NumBegun(out) < MaxFeatures
    /\ LET og == OutputGenerator_beginFeature(interface)
       IN  /\ featureName' = og.featureName
           /\ featureExtraProtect' = og.featureExtraProtect
           /\ feature_objects' = << >>
           /\ out' = Append(out, [w |-> "feature", name |-> og.featureName])
    /\ UNCHANGED << pc, err, commands, registry, feature_protos, script >>

\* beginFeature that forgets to reset feature_objects.
beginFeature_noReset(interface) ==
    /\ pc = "run"
    /\ err = "none"
    /\ last' = "beginFeature"
    /\ NumBegun(out) < MaxFeatures
    /\ LET og == OutputGenerator_beginFeature(interface)
       IN  /\ featureName' = og.featureName
           /\ featureExtraProtect' = og.featureExtraProtect
           /\ feature_protos' = << >>
           /\ out' = Append(out, [w |-> "feature", name |-> og.featureName])
    /\ UNCHANGED << pc, err, commands, registry, feature_objects, script >>

beginFeature(interface) ==
    /\ pc = "run"
    /\ err = "none"
    /\ last' = "beginFeature"
    /\ NumBegun(out) < MaxFeatures
    /\ LET og == OutputGenerator_beginFeature(interface)
       IN  /\ featureName' = og.featureName
           /\ featureExtraProtect' = og.featureExtraProtect
           /\ feature_objects' = << >>
           /\ feature_protos' = << >>
           /\ out' = Append(out, [w |-> "feature", name |-> og.featureName])
    /\ UNCHANGED << pc, err, commands, registry, script >>

\* EndFeatureWrites with the protos written before the objects.
EndFeatureWrites_protosFirst(protect, objects, protos) ==
    << [w |-> "ifdef", ifdef |-> IF protect # None THEN protect ELSE ""],
       [w |-> "protos", protos |-> protos],
       [w |-> "objects", objects |-> objects],
       [w |-> "close"] >>

\* The four write() calls of endFeature.
EndFeatureWrites(protect, objects, protos) ==
    << [w |-> "ifdef", ifdef |-> IF protect # None THEN protect ELSE ""],
       [w |-> "objects", objects |-> objects],
       [w |-> "protos", protos |-> protos],
       [w |-> "close"] >>

\* endFeature that appends the feature name only when it is not listed yet.
endFeature_dedupNames ==
    /\ pc = "run"
    /\ err = "none"
    /\ last' = "endFeature"
    /\ Len(feature_names) < MaxFeatures
    /\ IF featureExtraProtect = Unset
       THEN /\ err' = "AttributeError"
            /\ UNCHANGED << pc, featureName, featureExtraProtect, commands,
                            registry, buffers, out, script >>
       ELSE /\ out' = out \o EndFeatureWrites(featureExtraProtect,
                                              feature_objects, feature_protos)
            /\ feature_names' = IF InList(featureName, feature_names)
                                THEN feature_names
                                ELSE Append(feature_names, featureName)
            /\ featureName' = OutputGenerator_endFeature.featureName
            /\ featureExtraProtect' = OutputGenerator_endFeature.featureExtraProtect
            /\ UNCHANGED << pc, err, commands, dispatchable_objects,
                            non_dispatchable_objects, buffers, script >>

endFeature ==
    /\ pc = "run"
    /\ err = "none"
    /\ last' = "endFeature"
    /\ Len(feature_names) < MaxFeatures
    /\ IF featureExtraProtect = Unset
       THEN \* self.featureExtraProtect does not exist yet
            /\ err' = "AttributeError"
            /\ UNCHANGED << pc, featureName, featureExtraProtect, commands,
                            registry, buffers, out, script >>
       ELSE /\ out' = out \o EndFeatureWrites(featureExtraProtect,
                                              feature_objects, feature_protos)
            /\ feature_names' = Append(feature_names, featureName)
            /\ featureName' = OutputGenerator_endFeature.featureName
            /\ featureExtraProtect' = OutputGenerator_endFeature.featureExtraProtect
            /\ UNCHANGED << pc, err, commands, dispatchable_objects,
                            non_dispatchable_objects, buffers, script >>

\* AddFeatureObject without the test against the global lists.
AddFeatureObject_noGlobalCheck(type, fobjs, disp, nondisp) ==
    IF ~InList(type, fobjs) THEN Append(fobjs, type) ELSE fobjs

\* genCmd, lines 558-560: a handle joins the open feature's objects when it
\* is in neither the feature's list nor a global list.
AddFeatureObject(type, fobjs, disp, nondisp) ==
    IF ~InList(type, fobjs)
    THEN IF ~InList(type, disp) /\ ~InList(type, nondisp)
         THEN Append(fobjs, type)
         ELSE fobjs
    ELSE fobjs

\* AddGlobalObject with `if` ... `if` in place of `if` ... `else`: a
\* non-dispatchable handle falls through to the dispatchable list too.
AddGlobalObject_fallThrough(type, disp, nondisp) ==
    [disp    |-> IF ~InList(type, disp) THEN Append(disp, type) ELSE disp,
     nondisp |-> IF isHandleTypeNonDispatchable(type) /\ ~InList(type, nondisp)
                 THEN Append(nondisp, type) ELSE nondisp]

\* AddGlobalObject without the `not in` tests.
AddGlobalObject_noDedup(type, disp, nondisp) ==
    IF isHandleTypeNonDispatchable(type)
    THEN [disp |-> disp, nondisp |-> Append(nondisp, type)]
    ELSE [disp |-> Append(disp, type), nondisp |-> nondisp]

\* AddGlobalObject that leaves the registration to a later step.
AddGlobalObject_deferred(type, disp, nondisp) ==
    [disp |-> disp, nondisp |-> nondisp]

\* genCmd, lines 561-566: a handle joins one global list, once.
AddGlobalObject(type, disp, nondisp) ==
    IF isHandleTypeNonDispatchable(type)
    THEN [disp |-> disp,
          nondisp |-> IF ~InList(type, nondisp) THEN Append(nondisp, type)
                      ELSE nondisp]
    ELSE [disp |-> IF ~InList(type, disp) THEN Append(disp, type) ELSE disp,
          nondisp |-> nondisp]

\* VisitParam without the test of the category: every type is an object.
VisitParam_allHandles(st, param) ==
    LET info  == getTypeNameTuple(param)
        type  == info[1]
        name  == info[2]
        g     == AddGlobalObject(type, st.disp, st.nondisp)
    IN  [protos  |-> Append(st.protos, [k |-> "Param", type |-> type, name |-> name]),
         fobjs   |-> AddFeatureObject(type, st.fobjs, st.disp, st.nondisp),
         disp    |-> g.disp,
         nondisp |-> g.nondisp]

\* VisitParam that emits a Param only for the handle parameters.
VisitParam_skipNonHandle(st, param) ==
    LET info  == getTypeNameTuple(param)
        type  == info[1]
        name  == info[2]
    IN  IF getTypeCategory(type) = "handle"
        THEN LET g == AddGlobalObject(type, st.disp, st.nondisp)
             IN  [protos  |-> Append(st.protos,
                                     [k |-> "Param", type |-> type, name |-> name]),
                  fobjs   |-> AddFeatureObject(type, st.fobjs, st.disp, st.nondisp),
                  disp    |-> g.disp,
                  nondisp |-> g.nondisp]
        ELSE st

\* One pass of the loop `for param in params` of genCmd over the state
\* st = [protos, fobjs, disp, nondisp].
VisitParam(st, param) ==
    LET info  == getTypeNameTuple(param)
        type  == info[1]
        name  == info[2]
        protos == Append(st.protos, [k |-> "Param", type |-> type, name |-> name])
    IN  IF getTypeCategory(type) = "handle"
        THEN LET g == AddGlobalObject(type, st.disp, st.nondisp)
             IN  [protos  |-> protos,
                  fobjs   |-> AddFeatureObject(type, st.fobjs, st.disp, st.nondisp),
                  disp    |-> g.disp,
                  nondisp |-> g.nondisp]
        ELSE [st EXCEPT !.protos = protos]

RECURSIVE VisitParams(_, _)
VisitParams(st, params) ==
    IF params = << >> THEN st
    ELSE VisitParams(VisitParam(st, Head(params)), Tail(params))

\* The text genCmd appends to feature_protos before and after the parameters.
ProtoOpen(cmd) ==
    << [k |-> "Proto", ret |-> cmd.proto_type,
        name |-> StripPrefix(Chars(cmd.name))],
       [k |-> "[" ] >>
ProtoClose == << [k |-> "])" ] >>

\* genCmd that calls OutputGenerator.genCmd last, as endFeature does with
\* OutputGenerator.endFeature.
genCmd_lateValidate(cmd) ==
    /\ pc = "run"
    /\ err = "none"
    /\ last' = "genCmd"
    /\ Len(commands) < MaxCmds
    /\ LET st == VisitParams([protos  |-> feature_protos \o ProtoOpen(cmd),
                              fobjs   |-> feature_objects,
                              disp    |-> dispatchable_objects,
                              nondisp |-> non_dispatchable_objects],
                             cmd.params)
       IN  /\ commands' = Append(commands,
                                 [name |-> cmd.name,
                                  params |-> ParamsInfo(cmd.params)])
           /\ feature_protos' = st.protos \o ProtoClose
           /\ feature_objects' = st.fobjs
           /\ dispatchable_objects' = st.disp
           /\ non_dispatchable_objects' = st.nondisp
    /\ err' = IF OutputGenerator_genCmd(featureName) THEN "none" ELSE "UserWarning"
    /\ UNCHANGED << pc, featureName, featureExtraProtect, feature_names, out,
                    script >>

genCmd(cmd) ==
    /\ pc = "run"
    /\ err = "none"
    /\ last' = "genCmd"
    /\ Len(commands) < MaxCmds
    /\ IF ~OutputGenerator_genCmd(featureName)
       THEN \* validateFeature raises before anything is recorded
            /\ err' = "UserWarning"
            /\ UNCHANGED << pc, featureName, featureExtraProtect, commands,
                            registry, buffers, out, script >>
       ELSE LET st == VisitParams([protos  |-> feature_protos \o ProtoOpen(cmd),
                                   fobjs   |-> feature_objects,
                                   disp    |-> dispatchable_objects,
                                   nondisp |-> non_dispatchable_objects],
                                  cmd.params)
            IN  /\ commands' = Append(commands,
                                      [name |-> cmd.name,
                                       params |-> ParamsInfo(cmd.params)])
                /\ feature_protos' = st.protos \o ProtoClose
                /\ feature_objects' = st.fobjs
                /\ dispatchable_objects' = st.disp
                /\ non_dispatchable_objects' = st.nondisp
                /\ UNCHANGED << pc, err, featureName, featureExtraProtect,
                                feature_names, out, script >>

-----------------------------------------------------------------------------
(* endFile: the platform partition and the emitted list code               *)

linux_wsi_types == << "xlib_", "xcb_", "wayland_", "mir_" >>
wsi_extensions ==
    << "VK_KHR_android_surface", "VK_KHR_win32_surface", "VK_KHR_xlib_surface",
       "VK_KHR_xcb_surface", "VK_KHR_wayland_surface", "VK_KHR_mir_surface" >>
base_extensions ==
    << "VK_VERSION_1_0", "VK_KHR_surface", "VK_KHR_swapchain",
       "VK_KHR_display_swapchain" >>

NoBuckets ==
    [win32_wsi |-> << >>, android_wsi |-> << >>, linux_wsi |-> << >>,
     win32_only |-> << >>, android_only |-> << >>, linux_only |-> << >>,
     common_exts |-> << >>, other_exts |-> << >>]

\* DropInBucket with the android test written as a second `if` instead of
\* `elif`: a name containing 'win32' is tested again by the rest of the chain.
DropInBucket_noElif(b, ext) ==
    LET b1 == IF Contains(Chars("win32"), Chars(ext))
              THEN IF InList(ext, wsi_extensions)
                   THEN [b EXCEPT !.win32_wsi = Append(@, ext)]
                   ELSE [b EXCEPT !.win32_only = Append(@, ext)]
              ELSE b
    IN  IF Contains(Chars("android"), Chars(ext))
        THEN IF InList(ext, wsi_extensions)
             THEN [b1 EXCEPT !.android_wsi = Append(@, ext)]
             ELSE [b1 EXCEPT !.android_only = Append(@, ext)]
        ELSE IF \E i \in 1..Len(linux_wsi_types) :
                    Contains(Chars(linux_wsi_types[i]), Chars(ext))
        THEN IF InList(ext, wsi_extensions)
             THEN [b1 EXCEPT !.linux_wsi = Append(@, ext)]
             ELSE [b1 EXCEPT !.linux_only = Append(@, ext)]
        ELSE IF InList(ext, base_extensions)
        THEN [b1 EXCEPT !.common_exts = Append(@, ext)]
        ELSE [b1 EXCEPT !.other_exts = Append(@, ext)]

\* DropInBucket with the android test placed before the win32 test.
DropInBucket_androidFirst(b, ext) ==
    IF Contains(Chars("android"), Chars(ext))
    THEN IF InList(ext, wsi_extensions)
         THEN [b EXCEPT !.android_wsi = Append(@, ext)]
         ELSE [b EXCEPT !.android_only = Append(@, ext)]
    ELSE IF Contains(Chars("win32"), Chars(ext))
    THEN IF InList(ext, wsi_extensions)
         THEN [b EXCEPT !.win32_wsi = Append(@, ext)]
         ELSE [b EXCEPT !.win32_only = Append(@, ext)]
    ELSE IF \E i \in 1..Len(linux_wsi_types) :
                Contains(Chars(linux_wsi_types[i]), Chars(ext))
    THEN IF InList(ext, wsi_extensions)
         THEN [b EXCEPT !.linux_wsi = Append(@, ext)]
         ELSE [b EXCEPT !.linux_only = Append(@, ext)]
    ELSE IF InList(ext, base_extensions)
    THEN [b EXCEPT !.common_exts = Append(@, ext)]
    ELSE [b EXCEPT !.other_exts = Append(@, ext)]

\* One pass of the loop `for ext in self.feature_names` over the buckets b.
DropInBucket(b, ext) ==
    IF Contains(Chars("win32"), Chars(ext))
    THEN IF InList(ext, wsi_extensions)
         THEN [b EXCEPT !.win32_wsi = Append(@, ext)]
         ELSE [b EXCEPT !.win32_only = Append(@, ext)]
    ELSE IF Contains(Chars("android"), Chars(ext))
    THEN IF InList(ext, wsi_extensions)
         THEN [b EXCEPT !.android_wsi = Append(@, ext)]
         ELSE [b EXCEPT !.android_only = Append(@, ext)]
    ELSE IF \E i \in 1..Len(linux_wsi_types) :
                Contains(Chars(linux_wsi_types[i]), Chars(ext))
    THEN IF InList(ext, wsi_extensions)
         THEN [b EXCEPT !.linux_wsi = Append(@, ext)]
         ELSE [b EXCEPT !.linux_only = Append(@, ext)]
    ELSE IF InList(ext, base_extensions)
    THEN [b EXCEPT !.common_exts = Append(@, ext)]
    ELSE [b EXCEPT !.other_exts = Append(@, ext)]

RECURSIVE Partition(_, _)
Partition(b, names) ==
    IF names = << >> THEN b
    ELSE Partition(DropInBucket(b, Head(names)), Tail(names))

\* The write() calls of endFile that emit the two object lists.
ObjectListWrites(disp, nondisp) ==
    (IF disp # << >>
     THEN << [w |-> "object_dispatch_list", objects |-> disp] >> ELSE << >>)
    \o
    (IF nondisp # << >>
     THEN << [w |-> "object_non_dispatch_list", objects |-> nondisp] >> ELSE << >>)

\* The lists the emitted code defines, before its selector step runs.
EmittedLists(b) ==
    [android_wsi_exts |-> b.android_wsi, linux_wsi_exts |-> b.linux_wsi,
     win32_wsi_exts |-> b.win32_wsi,
     android_only_exts |-> b.android_only, linux_only_exts |-> b.linux_only,
     win32_only_exts |-> b.win32_only,
     common_exts |-> b.common_exts, non_exported_exts |-> b.other_exts,
     extensions |-> << >>, extensions_all |-> << >>, argv1 |-> Unset]

endFile ==
    /\ pc = "run"
    /\ err = "none"
    /\ last' = "endFile"
    /\ IF InList(None, feature_names)
       THEN \* 'win32' in None raises TypeError, after the object lists
            /\ err' = "TypeError"
            /\ out' = out \o ObjectListWrites(dispatchable_objects,
                                              non_dispatchable_objects)
            /\ UNCHANGED << pc, featureName, featureExtraProtect, commands,
                            registry, buffers, script >>
       ELSE LET b == Partition(NoBuckets, feature_names)
            IN  /\ pc' = "ended"
                /\ script' = EmittedLists(b)
                /\ out' = out \o ObjectListWrites(dispatchable_objects,
                                                  non_dispatchable_objects)
                              \o << [w |-> "ext_handling", buckets |-> b],
                                    [w |-> "structs"] >>
                /\ UNCHANGED << err, featureName, featureExtraProtect, commands,
                                registry, buffers >>

\* The display server lists of the emitted code.
android_display_servers == << "Android" >>
linux_display_servers   == << "Xcb", "Xlib", "Wayland", "Mir", "Display" >>
win32_display_servers   == << "Win32" >>

\* SelectedWsi with 'Display' missing from the linux display servers.
SelectedWsi_noDisplay(s, argv1) ==
    IF InList(argv1, win32_display_servers) THEN s.win32_wsi_exts
    ELSE IF InList(argv1, << "Xcb", "Xlib", "Wayland", "Mir" >>) THEN s.linux_wsi_exts
    ELSE IF InList(argv1, android_display_servers) THEN s.android_wsi_exts
    ELSE s.win32_wsi_exts \o s.linux_wsi_exts \o s.android_wsi_exts

\* The wsi lists the emitted if/elif/else chain adds to `extensions`.
SelectedWsi(s, argv1) ==
    IF InList(argv1, win32_display_servers) THEN s.win32_wsi_exts
    ELSE IF InList(argv1, linux_display_servers) THEN s.linux_wsi_exts
    ELSE IF InList(argv1, android_display_servers) THEN s.android_wsi_exts
    ELSE s.win32_wsi_exts \o s.linux_wsi_exts \o s.android_wsi_exts

\* SelectedOnly whose fallback forgets android_only_exts.
SelectedOnly_noAndroid(s, argv1) ==
    IF InList(argv1, win32_display_servers) THEN s.win32_only_exts
    ELSE IF InList(argv1, linux_display_servers) THEN s.linux_only_exts
    ELSE IF InList(argv1, android_display_servers) THEN s.android_only_exts
    ELSE s.win32_only_exts \o s.linux_only_exts

\* The only lists the emitted if/elif/else chain adds to `extensions_all`.
SelectedOnly(s, argv1) ==
    IF InList(argv1, win32_display_servers) THEN s.win32_only_exts
    ELSE IF InList(argv1, linux_display_servers) THEN s.linux_only_exts
    ELSE IF InList(argv1, android_display_servers) THEN s.android_only_exts
    ELSE s.win32_only_exts \o s.linux_only_exts \o s.android_only_exts

\* The emitted code from `extensions = common_exts` on, run with sys.argv[1].
\* `extensions` names the list object of common_exts and `extensions_all` that
\* of non_exported_exts; += extends a list in place.
selectFamily(argv1) ==
    /\ pc = "ended"
    /\ err = "none"
    /\ last' = "selectFamily"
    /\ LET extensions     == script.common_exts \o SelectedWsi(script, argv1)
           extensions_all == script.non_exported_exts
                             \o (extensions \o SelectedOnly(script, argv1))
       IN  script' = [script EXCEPT !.argv1 = argv1,
                                    !.extensions = extensions,
                                    !.common_exts = extensions,
                                    !.extensions_all = extensions_all,
                                    !.non_exported_exts = extensions_all]
    /\ pc' = "selected"
    /\ UNCHANGED << err, featureName, featureExtraProtect, commands, registry,
                    buffers, out >>

-----------------------------------------------------------------------------
(* Specifications                                                          *)

\* Any order of hook calls: the generator itself accepts them all.
Next ==
    \/ beginFile
    \/ \E interface \in Features : beginFeature(interface)
    \/ \E cmd \in Commands : genCmd(cmd)
    \/ endFeature
    \/ endFile
    \/ \E argv1 \in Selectors : selectFamily(argv1)

Spec == Init /\ [][Next]_vars

\* The order the registry walk keeps: beginFile, then per feature
\* beginFeature, genCmd*, endFeature, then endFile.
DriverNext ==
    \/ beginFile
    \/ featureName = None /\ \E interface \in Features : beginFeature(interface)
    \/ featureName # None /\ \E cmd \in Commands : genCmd(cmd)
    \/ featureName # None /\ endFeature
    \/ featureName = None /\ endFile
    \/ \E argv1 \in Selectors : selectFamily(argv1)

DriverSpec == Init /\ [][DriverNext]_vars

\* The registry walk over a registry that also holds the OddCommands, up to
\* the end of the last feature.
NameNext ==
    \/ beginFile
    \/ featureName = None /\ \E interface \in Features : beginFeature(interface)
    \/ featureName # None /\ \E cmd \in Commands \cup OddCommands : genCmd(cmd)
    \/ featureName # None /\ endFeature

NameSpec == Init /\ [][NameNext]_vars

\* The partition of endFile on drawn feature name lists: the state is the one
\* a walk over features without commands leaves before endFile.
BoundedSeq(S, n) == UNION { [1..k -> S] : k \in 0..n }

RECURSIVE EmptyFeatureWrites(_)
EmptyFeatureWrites(names) ==
    IF names = << >> THEN << >>
    ELSE << [w |-> "feature", name |-> Head(names)] >>
         \o EndFeatureWrites(None, << >>, << >>)
         \o EmptyFeatureWrites(Tail(names))

PartInit ==
    /\ feature_names \in BoundedSeq(PartNames, MaxNames)
    /\ pc = "run"
    /\ err = "none"
    /\ featureName = None
    /\ featureExtraProtect = IF feature_names = << >> THEN Unset ELSE None
    /\ commands = << >>
    /\ dispatchable_objects = << >>
    /\ non_dispatchable_objects = << >>
    /\ feature_objects = << >>
    /\ feature_protos = << >>
    /\ out = BeginFileWrites \o EmptyFeatureWrites(feature_names)
    /\ script = NoScript
    /\ last = IF feature_names = << >> THEN "beginFile" ELSE "endFeature"

PartNext ==
    \/ endFile
    \/ \E argv1 \in Selectors : selectFamily(argv1)

PartSpec == PartInit /\ [][PartNext]_vars

-----------------------------------------------------------------------------
(* Properties                                                              *)

Range(s) == { s[i] : i \in 1..Len(s) }
Count(x, l) == Cardinality({ i \in 1..Len(l) : l[i] = x })

\* The eight bucket lists of the emitted code.
EightBuckets ==
    { "win32_wsi_exts", "win32_only_exts", "android_wsi_exts", "android_only_exts",
      "linux_wsi_exts", "linux_only_exts", "common_exts", "non_exported_exts" }

\* Occurrences of x over the eight buckets.
Occurrences(x) ==
    Cardinality({ p \in UNION { { << b, i >> : i \in 1..Len(script[b]) } :
                                b \in EightBuckets } :
                  script[p[1]][p[2]] = x })

\* C1: after endFile every feature name is in exactly one of the eight
\* buckets, and the buckets together hold each name as often as feature_names
\* does and nothing else.
C1_PartitionExactlyOne ==
    pc = "ended" =>
        /\ \A n \in Range(feature_names) :
              /\ Cardinality({ b \in EightBuckets : InList(n, script[b]) }) = 1
              /\ Occurrences(n) = Count(n, feature_names)
        /\ \A b \in EightBuckets : Range(script[b]) \subseteq Range(feature_names)

C1_Witness ==
    /\ pc = "ended"
    /\ feature_names = << "VK_X_android_win32", "VK_EXT_debug_report" >>
    /\ script.win32_only_exts = << "VK_X_android_win32" >>
    /\ script.non_exported_exts = << "VK_EXT_debug_report" >>

\* Occurrences of a type over both global object lists.
GlobalCount(t) ==
    Count(t, dispatchable_objects) + Count(t, non_dispatchable_objects)

\* The handle types among the parameters of the commands visited so far.
VisitedHandles ==
    { t \in UNION { { commands[i].params[j][1] : j \in 1..Len(commands[i].params) } :
                    i \in 1..Len(commands) } :
      getTypeCategory(t) = "handle" }

\* The pieces of a prototype text that are a parameter of type t.
RefsType(protos, t) ==
    \E k \in 1..Len(protos) : protos[k].k = "Param" /\ protos[k].type = t

\* C2: a handle type referenced by the commands of one or several features
\* is in the global object lists exactly once, and a command visit adds a
\* type to the open feature's objects only if it was in neither global list
\* when the command was visited.
C2_FeatureIsolation ==
    /\ [](\A t \in VisitedHandles : GlobalCount(t) = 1)
    /\ [][\A t \in Range(feature_objects') \ Range(feature_objects) :
             /\ ~InList(t, dispatchable_objects)
             /\ ~InList(t, non_dispatchable_objects)]_vars

\* Feature A declared VkInstance; the open feature B visited a command with a
\* VkInstance parameter and did not take VkInstance into its objects.
C2_Witness ==
    /\ featureName # None
    /\ \E i \in 1..Len(out) :
          out[i].w = "objects" /\ InList("VkInstance", out[i].objects)
    /\ RefsType(feature_protos, "VkInstance")
    /\ ~InList("VkInstance", feature_objects)
    /\ GlobalCount("VkInstance") = 1

\* The objects lists and the protos texts written by endFeature, in order.
ObjWrites   == SelectSeq(out, LAMBDA x : x.w = "objects")
ProtoWrites == SelectSeq(out, LAMBDA x : x.w = "protos")

\* C3: in a walk that keeps the hook order, when no feature is open every
\* type of the global object lists is in the emitted objects list of exactly
\* one feature, the first whose commands reference it, and every name of an
\* emitted objects list is in a global list.
C3_ClassifiedOnce ==
    featureName = None =>
        /\ Len(ObjWrites) = Len(ProtoWrites)
        /\ \A t \in Range(dispatchable_objects) \cup Range(non_dispatchable_objects) :
              \E i \in 1..Len(ObjWrites) :
                  /\ Count(t, ObjWrites[i].objects) = 1
                  /\ \A j \in 1..Len(ObjWrites) :
                        j # i => ~InList(t, ObjWrites[j].objects)
                  /\ RefsType(ProtoWrites[i].protos, t)
                  /\ \A j \in 1..(i - 1) : ~RefsType(ProtoWrites[j].protos, t)
        /\ \A i \in 1..Len(ObjWrites) :
              \A t \in Range(ObjWrites[i].objects) : GlobalCount(t) = 1

\* Two features were emitted, both reference VkInstance, the first lists it.
C3_Witness ==
    /\ featureName = None
    /\ Len(ObjWrites) = 2
    /\ RefsType(ProtoWrites[1].protos, "VkInstance")
    /\ RefsType(ProtoWrites[2].protos, "VkInstance")
    /\ InList("VkInstance", ObjWrites[1].objects)
    /\ ObjWrites[2].objects = << "VkFence", "VkSurfaceKHR" >>

IsPrefix(a, b) == Len(a) <= Len(b) /\ SubSeq(b, 1, Len(a)) = a
NoDup(l) == \A i, j \in 1..Len(l) : l[i] = l[j] => i = j

\* C4: neither global object list ever holds a type twice, and every step
\* leaves each list a prefix of its next value.
C4_DedupMonotone ==
    /\ [](NoDup(dispatchable_objects) /\ NoDup(non_dispatchable_objects))
    /\ [][/\ IsPrefix(dispatchable_objects, dispatchable_objects')
          /\ IsPrefix(non_dispatchable_objects, non_dispatchable_objects')]_vars

\* VkInstance and VkFence were each visited again after they were registered.
C4_Witness ==
    /\ Len(commands) = 2
    /\ commands[1].name = "vkCreateFence"
    /\ commands[2].name = "vkWaitForFences"
    /\ dispatchable_objects = << "VkDevice", "VkInstance", "VkSurfaceKHR" >>
    /\ non_dispatchable_objects = << "VkFence" >>

\* C5: endFeature before any beginFeature, and beginFeature while a feature
\* is open, raise, and the latter leaves the open feature's objects and
\* protos as they were.
C5_LifecycleEnforced ==
    [][/\ (last' = "beginFeature" /\ featureName # None) =>
              (err' # "none" /\ feature_objects' = feature_objects
                             /\ feature_protos' = feature_protos)
       /\ (last' = "endFeature" /\ NumBegun(out) = 0) => err' # "none"]_vars

C7_GlobalsUpdatedAtFeatureEnd ==
    [][/\ (last' = "genCmd" /\ featureName # None) =>
              UNCHANGED << dispatchable_objects, non_dispatchable_objects >>
       /\ last' = "endFeature" =>
              \A t \in Range(feature_objects) :
                  /\ GlobalCount(t) = 0
                  /\ (InList(t, dispatchable_objects')
                      \/ InList(t, non_dispatchable_objects'))]_vars

\* C7 amended: genCmd itself registers every handle type among the visited
\* command's parameters in a global list, so every type of feature_objects
\* is already in a global list, and endFeature leaves both global lists
\* unchanged.
C7_GlobalsUpdatedAtVisit ==
    /\ [][(last' = "genCmd" /\ err' = "none") =>
              \A j \in 1..Len(commands'[Len(commands')].params) :
                  LET t == commands'[Len(commands')].params[j][1]
                  IN  getTypeCategory(t) = "handle" =>
                          \/ InList(t, dispatchable_objects')
                          \/ InList(t, non_dispatchable_objects')]_vars
    /\ [](\A t \in Range(feature_objects) : GlobalCount(t) = 1)
    /\ [][last' = "endFeature" =>
              UNCHANGED << dispatchable_objects, non_dispatchable_objects >>]_vars

\* endFeature ran on a feature that collected two handles.
C7_Witness ==
    /\ last = "endFeature"
    /\ feature_objects = << "VkDevice", "VkFence" >>
    /\ dispatchable_objects = << "VkDevice" >>
    /\ non_dispatchable_objects = << "VkFence" >>

\* The five ordered rules of the partition, by bucket name.
HasSub(sub, n) == Contains(Chars(sub), Chars(n))
WsiAllowlist ==
    { "VK_KHR_android_surface", "VK_KHR_win32_surface", "VK_KHR_xlib_surface",
      "VK_KHR_xcb_surface", "VK_KHR_wayland_surface", "VK_KHR_mir_surface" }
BaseSet ==
    { "VK_VERSION_1_0", "VK_KHR_surface", "VK_KHR_swapchain",
      "VK_KHR_display_swapchain" }
RuleBucket(n) ==
    IF HasSub("win32", n)
    THEN IF n \in WsiAllowlist THEN "win32_wsi_exts" ELSE "win32_only_exts"
    ELSE IF HasSub("android", n)
    THEN IF n \in WsiAllowlist THEN "android_wsi_exts" ELSE "android_only_exts"
    ELSE IF \E sub \in { "xlib_", "xcb_", "wayland_", "mir_" } : HasSub(sub, n)
    THEN IF n \in WsiAllowlist THEN "linux_wsi_exts" ELSE "linux_only_exts"
    ELSE IF n \in BaseSet THEN "common_exts"
    ELSE "non_exported_exts"

\* The names of feature_names the rules route to bucket b, in order.
Routed(b) == SelectSeq(feature_names, LAMBDA n : RuleBucket(n) = b)

\* C8: after endFile each bucket holds exactly the names the five ordered
\* rules route to it (first match wins), in feature order; a name with two
\* platform substrings is in the bucket of the earlier rule only.
C8_RulePrecedence ==
    pc = "ended" =>
        /\ \A b \in EightBuckets : script[b] = Routed(b)
        /\ InList("VK_X_android_win32", feature_names) =>
              /\ InList("VK_X_android_win32", script.win32_only_exts)
              /\ ~InList("VK_X_android_win32", script.android_only_exts)
        /\ InList("VK_X_xcb_android", feature_names) =>
              /\ InList("VK_X_xcb_android", script.android_only_exts)
              /\ ~InList("VK_X_xcb_android", script.linux_only_exts)

C8_Witness ==
    /\ pc = "ended"
    /\ feature_names = << "VK_X_xcb_android", "VK_X_android_win32" >>
    /\ script.android_only_exts = << "VK_X_xcb_android" >>
    /\ script.win32_only_exts = << "VK_X_android_win32" >>

\* The family a selector token selects; "none" for an unrecognized token.
FamilyOf(token) ==
    IF token = "Win32" THEN "win32"
    ELSE IF token \in { "Xcb", "Xlib", "Wayland", "Mir", "Display" } THEN "linux"
    ELSE IF token = "Android" THEN "android"
    ELSE "none"
WsiBucket(family) ==
    IF family = "win32" THEN "win32_wsi_exts"
    ELSE IF family = "linux" THEN "linux_wsi_exts" ELSE "android_wsi_exts"
OnlyBucket(family) ==
    IF family = "win32" THEN "win32_only_exts"
    ELSE IF family = "linux" THEN "linux_only_exts" ELSE "android_only_exts"
Families == { "win32", "linux", "android" }

\* C9: for a recognized selector, extensions is common followed by the
\* selected family's wsi bucket, extensions_all is other, then extensions,
\* then the selected family's only bucket, and no name of another family's
\* wsi or only bucket is in either list.
C9_RecognizedSelector ==
    (pc = "selected" /\ FamilyOf(script.argv1) # "none") =>
        LET fam == FamilyOf(script.argv1)
            ext == Routed("common_exts") \o Routed(WsiBucket(fam))
        IN  /\ script.extensions = ext
            /\ script.extensions_all =
                  Routed("non_exported_exts") \o ext \o Routed(OnlyBucket(fam))
            /\ \A g \in Families \ { fam } :
                  \A n \in Range(Routed(WsiBucket(g))) \cup Range(Routed(OnlyBucket(g))) :
                      /\ ~InList(n, script.extensions)
                      /\ ~InList(n, script.extensions_all)

C9_Witness ==
    /\ pc = "selected"
    /\ script.argv1 = "Display"
    /\ feature_names = << "VK_KHR_win32_surface", "VK_KHR_xcb_surface" >>
    /\ script.extensions = << "VK_KHR_xcb_surface" >>

\* C10: an unrecognized selector raises nothing; extensions then holds the
\* common names and the wsi names of all three families, and extensions_all
\* holds every feature name of the run, each as often as feature_names does.
C10_UnrecognizedSelector ==
    (pc = "selected" /\ FamilyOf(script.argv1) = "none") =>
        /\ err = "none"
        /\ \A n \in Range(feature_names) :
              /\ Count(n, script.extensions) =
                    IF RuleBucket(n) \in { "common_exts", "win32_wsi_exts",
                                           "linux_wsi_exts", "android_wsi_exts" }
                    THEN Count(n, feature_names) ELSE 0
              /\ Count(n, script.extensions_all) = Count(n, feature_names)
        /\ Range(script.extensions) \subseteq Range(feature_names)
        /\ Len(script.extensions_all) = Len(feature_names)

C10_Witness ==
    /\ pc = "selected"
    /\ script.argv1 = "Headless"
    /\ feature_names = << "VK_X_xcb_android", "VK_KHR_win32_surface" >>
    /\ script.extensions = << "VK_KHR_win32_surface" >>
    /\ script.extensions_all = << "VK_KHR_win32_surface", "VK_X_xcb_android" >>

\* The place of the first write of kind w in the output, 0 when there is none.
FirstWrite(w) ==
    IF \E i \in 1..Len(out) : out[i].w = w
    THEN CHOOSE i \in 1..Len(out) :
             out[i].w = w /\ \A j \in 1..(i - 1) : out[j].w # w
    ELSE 0

\* C11: once endFile has written the code that builds object_type_list from
\* object_dispatch_list and object_non_dispatch_list, both list declarations
\* were written before it, whatever handles the run has seen.
C11_BothObjectListsEmitted ==
    FirstWrite("structs") > 0 =>
        /\ FirstWrite("object_dispatch_list") > 0
        /\ FirstWrite("object_dispatch_list") < FirstWrite("structs")
        /\ FirstWrite("object_non_dispatch_list") > 0
        /\ FirstWrite("object_non_dispatch_list") < FirstWrite("structs")

\* The feature headers written by beginFeature, in order.
FeatWrites == SelectSeq(out, LAMBDA x : x.w = "feature")
CloseCount == Len(SelectSeq(out, LAMBDA x : x.w = "close"))

\* C12: in a walk that keeps the hook order feature_names holds one entry per
\* endFeature call, the names of the features in the order they were ended;
\* every step leaves it a prefix of its next value, and endFeature appends
\* the name whether or not it is already listed.
C12_FeatureNamesAppendOnly ==
    /\ [](/\ Len(feature_names) = CloseCount
          /\ \A i \in 1..Len(feature_names) : feature_names[i] = FeatWrites[i].name)
    /\ [][IsPrefix(feature_names, feature_names')]_vars
    /\ [][last' = "endFeature" =>
              feature_names' = Append(feature_names, featureName)]_vars

\* Two features of the same name were completed.
C12_Witness ==
    /\ last = "endFeature"
    /\ CloseCount = 2
    /\ feature_names = << "VK_EXT_debug_report", "VK_EXT_debug_report" >>

\* The writes of endFile.
RunEndKinds ==
    { "object_dispatch_list", "object_non_dispatch_list", "ext_handling", "structs" }

\* C13: in a walk that keeps the hook order the output only grows at its
\* end; every feature header is followed at once by that feature's ifdef,
\* objects, protos and closing (unless the feature is still open, and then
\* the header is the last write), the k-th header is that of the k-th
\* feature ended, and nothing follows the writes of endFile but writes of
\* endFile.
C13_EmissionOrder ==
    /\ [][IsPrefix(out, out')]_vars
    /\ [](/\ pc # "new" => SubSeq(out, 1, Len(BeginFileWrites)) = BeginFileWrites
          /\ \A i \in 1..Len(out) :
                /\ out[i].w = "feature" =>
                      \/ i = Len(out) /\ featureName = out[i].name
                      \/ /\ i + 4 <= Len(out)
                         /\ out[i + 1].w = "ifdef"
                         /\ out[i + 2].w = "objects"
                         /\ out[i + 3].w = "protos"
                         /\ out[i + 4].w = "close"
                /\ out[i].w = "ifdef" => i > 1 /\ out[i - 1].w = "feature"
                /\ out[i].w = "objects" => i > 1 /\ out[i - 1].w = "ifdef"
                /\ out[i].w = "protos" => i > 1 /\ out[i - 1].w = "objects"
                /\ out[i].w = "close" => i > 1 /\ out[i - 1].w = "protos"
                /\ out[i].w \in RunEndKinds =>
                      \A j \in i..Len(out) : out[j].w \in RunEndKinds
          /\ \A k \in 1..Len(feature_names) : FeatWrites[k].name = feature_names[k])

\* Two features were written one after the other, then the lists of endFile.
C13_Witness ==
    /\ pc = "ended"
    /\ Len(out) = Len(BeginFileWrites) + 13
    /\ out[Len(BeginFileWrites) + 1] = [w |-> "feature", name |-> "VK_VERSION_1_0"]
    /\ out[Len(BeginFileWrites) + 5].w = "close"
    /\ out[Len(BeginFileWrites) + 6] = [w |-> "feature", name |-> "VK_KHR_win32_surface"]
    /\ out[Len(BeginFileWrites) + 10].w = "close"
    /\ out[Len(BeginFileWrites) + 11].w = "object_dispatch_list"
    /\ out[Len(out)].w = "structs"

\* The <param> nodes the registry holds for the command of that name.
SchemaParams(name) == (CHOOSE c \in Commands : c.name = name).params

\* The Param entries of a sequence of prototype pieces.
ParamEntries(pieces) == SelectSeq(pieces, LAMBDA x : x.k = "Param")

\* C14: a visit of a command in an open feature appends one prototype whose
\* Param entries are the (type, name) texts of the command's <param> nodes,
\* one entry per node, in the order of the nodes, repeats included.
C14_ParamsInSchemaOrder ==
    [][(last' = "genCmd" /\ err' = "none") =>
          LET ps    == SchemaParams(commands'[Len(commands')].name)
              added == SubSeq(feature_protos', Len(feature_protos) + 1,
                              Len(feature_protos'))
          IN  /\ IsPrefix(feature_protos, feature_protos')
              /\ Len(added) = Len(ps) + 3
              /\ added[1].k = "Proto" /\ added[2].k = "["
              /\ added[Len(added)].k = "])"
              /\ Len(ParamEntries(added)) = Len(ps)
              /\ \A i \in 1..Len(ps) :
                    added[i + 2] = [k |-> "Param", type |-> ps[i][1].text,
                                    name |-> ps[i][2].text]]_vars

\* vkWaitForFences, whose VkFence pFences parameter repeats, was visited.
C14_Witness ==
    /\ last = "genCmd" /\ err = "none"
    /\ commands # << >>
    /\ commands[Len(commands)].name = "vkWaitForFences"
    /\ LET n == Len(feature_protos)
       IN  /\ n >= 8
           /\ feature_protos[n - 3] = [k |-> "Param", type |-> "VkFence", name |-> "pFences"]
           /\ feature_protos[n - 1] = [k |-> "Param", type |-> "VkFence", name |-> "pFences"]
           /\ feature_protos[n - 4] = [k |-> "Param", type |-> "uint32_t", name |-> "fenceCount"]

\* The run beginFile; beginFeature(VK_VERSION_1_0); genCmd(vkCreateInstance);
\* endFeature; endFile.
C15_Scenario ==
    /\ pc = "ended" /\ err = "none" /\ last = "endFile"
    /\ NumBegun(out) = 1
    /\ feature_names = << "VK_VERSION_1_0" >>
    /\ Len(commands) = 1
    /\ commands[1].name = "vkCreateInstance"

\* C15: the run beginFeature(VK_VERSION_1_0); genCmd(vkCreateInstance);
\* endFeature; endFile emits one prototype named CreateInstance with the
\* parameters (VkInstanceCreateInfo, pInfo), (VkInstance, pInstance) in that
\* order and the feature objects [VkInstance]; dispatchable_objects is
\* [VkInstance], non_dispatchable_objects is empty, feature_names is
\* [VK_VERSION_1_0], and VK_VERSION_1_0 is in the common bucket only.
C15_CreateInstanceScenario ==
    C15_Scenario =>
        /\ Len(ProtoWrites) = 1
        /\ ProtoWrites[1].protos =
              << [k |-> "Proto", ret |-> "VkResult",
                  name |-> << "C","r","e","a","t","e","I","n","s","t","a","n","c","e" >>],
                 [k |-> "["],
                 [k |-> "Param", type |-> "VkInstanceCreateInfo", name |-> "pInfo"],
                 [k |-> "Param", type |-> "VkInstance", name |-> "pInstance"],
                 [k |-> "])"] >>
        /\ Len(ObjWrites) = 1
        /\ ObjWrites[1].objects = << "VkInstance" >>
        /\ dispatchable_objects = << "VkInstance" >>
        /\ non_dispatchable_objects = << >>
        /\ \E i \in 1..Len(out) :
              /\ out[i].w = "ext_handling"
              /\ out[i].buckets = [NoBuckets EXCEPT !.common_exts = << "VK_VERSION_1_0" >>]
        /\ script.common_exts = << "VK_VERSION_1_0" >>
        /\ script.non_exported_exts = << >>

\* The scenario was run to its end.
C15_Witness ==
    /\ C15_Scenario
    /\ out[Len(out)].w = "structs"
    /\ featureName = None

\* The prototype names of a sequence of prototype pieces, in order.
ProtoNamesOf(pieces) ==
    LET ps == SelectSeq(pieces, LAMBDA x : x.k = "Proto")
    IN  [i \in 1..Len(ps) |-> ps[i].name]

\* The prototype names of the emitted features, one after the other.
RECURSIVE EmittedProtoNames(_)
EmittedProtoNames(n) ==
    IF n = 0 THEN << >>
    ELSE EmittedProtoNames(n - 1) \o ProtoNamesOf(ProtoWrites[n].protos)

\* C16: in a walk that keeps the hook order beginFeature leaves both feature
\* buffers empty and endFeature emits the buffers as they are, so that the
\* prototypes of the emitted features, followed by those of the open one,
\* are the commands visited, in visit order, each in the feature it was
\* visited in, and no object is emitted in two features.
C16_BuffersFlushed ==
    /\ [][last' = "beginFeature" =>
             feature_objects' = << >> /\ feature_protos' = << >>]_vars
    /\ [][last' = "endFeature" =>
             /\ Len(ProtoWrites') = Len(ProtoWrites) + 1
             /\ ProtoWrites'[Len(ProtoWrites')].protos = feature_protos
             /\ ObjWrites'[Len(ObjWrites')].objects = feature_objects]_vars
    /\ [](EmittedProtoNames(Len(ProtoWrites))
             \o (IF featureName # None THEN ProtoNamesOf(feature_protos) ELSE << >>)
          = [i \in 1..Len(commands) |-> SubSeq(Chars(commands[i].name), 3,
                                               Len(Chars(commands[i].name)))])
    /\ [](\A i, j \in 1..Len(ObjWrites) :
             i # j => Range(ObjWrites[i].objects) \cap Range(ObjWrites[j].objects) = {})

\* Two features were emitted, each with the one command visited in it.
C16_Witness ==
    /\ Len(ProtoWrites) = 2
    /\ Len(commands) = 2
    /\ ProtoNamesOf(ProtoWrites[1].protos) = << StripPrefix(Chars(commands[1].name)) >>
    /\ ProtoNamesOf(ProtoWrites[2].protos) = << StripPrefix(Chars(commands[2].name)) >>
    /\ commands[1].name # commands[2].name
    /\ ObjWrites[1].objects # << >>

\* C17: beginFeature empties the two feature buffers and leaves
\* dispatchable_objects, non_dispatchable_objects and feature_names as they
\* are; endFile leaves the three lists as they are, and the object lists it
\* writes are the two global lists.
C17_RegistryNeverReset ==
    /\ [][last' = "beginFeature" =>
             /\ dispatchable_objects' = dispatchable_objects
             /\ non_dispatchable_objects' = non_dispatchable_objects
             /\ feature_names' = feature_names
             /\ feature_objects' = << >>
             /\ feature_protos' = << >>]_vars
    /\ [][last' = "endFile" =>
             /\ dispatchable_objects' = dispatchable_objects
             /\ non_dispatchable_objects' = non_dispatchable_objects
             /\ feature_names' = feature_names
             /\ \A i \in (Len(out) + 1)..Len(out') :
                   /\ out'[i].w = "object_dispatch_list" =>
                         out'[i].objects = dispatchable_objects
                   /\ out'[i].w = "object_non_dispatch_list" =>
                         out'[i].objects = non_dispatchable_objects]_vars

\* A second feature was begun with all three lists filled by the first.
C17_Witness ==
    /\ last = "beginFeature"
    /\ dispatchable_objects # << >>
    /\ non_dispatchable_objects # << >>
    /\ feature_names # << >>
    /\ feature_objects = << >> /\ feature_protos = << >>

\* The <type> elements of the registry that name t, by child or by attribute.
TypeEntries(t) ==
    { e \in Range(TypeTable) : (e.name # None /\ e.name = t) \/ e.attr_name = t }

\* t is absent from the registry, or has no category, or a category other
\* than 'handle'.
NotAHandle(t) == \A e \in TypeEntries(t) : e.category # "handle"

\* C18: a visit of a command with a parameter whose type is absent from the
\* registry, or has no category, or a category other than 'handle', raises
\* nothing, emits the parameter in the prototype, and adds the type to no
\* object list; such a type is never in a feature's objects nor in a global
\* object list.
C18_LookupMissNotFatal ==
    /\ [][(last' = "genCmd" /\ featureName # None) =>
             /\ err' = "none"
             /\ LET ps == SchemaParams(commands'[Len(commands')].name)
                IN  \A i \in 1..Len(ps) :
                       NotAHandle(ps[i][1].text) =>
                          feature_protos'[Len(feature_protos) + 2 + i] =
                             [k |-> "Param", type |-> ps[i][1].text,
                              name |-> ps[i][2].text]]_vars
    /\ [](\A t \in Range(feature_objects) \cup Range(dispatchable_objects)
                     \cup Range(non_dispatchable_objects)
                     \cup UNION { Range(ObjWrites[i].objects) : i \in 1..Len(ObjWrites) } :
             ~NotAHandle(t))

\* vkCreateFence (VkAllocationCallbacks is absent from the registry) and
\* vkWaitForFences (uint32_t has no category) were visited, and a feature
\* was emitted afterwards.
C18_Witness ==
    /\ err = "none"
    /\ TypeEntries("VkAllocationCallbacks") = {}
    /\ \E i \in 1..Len(commands) : commands[i].name = "vkCreateFence"
    /\ \E i \in 1..Len(commands) : commands[i].name = "vkWaitForFences"
    /\ \E i \in 1..Len(ProtoWrites) : \E j \in 1..Len(ProtoWrites[i].protos) :
          ProtoWrites[i].protos[j] =
             [k |-> "Param", type |-> "VkAllocationCallbacks", name |-> "pAllocator"]
    /\ ObjWrites # << >>

\* The registry declares the handle type t with the non-dispatchable macro.
DeclaredNonDispatchable(t) ==
    \E e \in TypeEntries(t) :
        e.category = "handle" /\ e.type = "VK_DEFINE_NON_DISPATCHABLE_HANDLE"

\* C19: every handle type among the parameters of the visited commands is in
\* non_dispatchable_objects if and only if the registry declares it with
\* VK_DEFINE_NON_DISPATCHABLE_HANDLE, in dispatchable_objects otherwise, and
\* in exactly one of the two lists.
C19_KindByDeclaredMacro ==
    \A t \in VisitedHandles :
        /\ GlobalCount(t) = 1
        /\ InList(t, non_dispatchable_objects) <=> DeclaredNonDispatchable(t)
        /\ InList(t, dispatchable_objects) <=> ~DeclaredNonDispatchable(t)

\* The characters of s without the first two, s being a string of any length.
Drop2(s) == [i \in 1..(IF Len(s) > 2 THEN Len(s) - 2 ELSE 0) |-> s[i + 2]]

\* C20: the visit of a command of any name in an open feature raises nothing
\* and appends a prototype whose name is the command's name without its
\* first two characters, whatever they are: 'glFinish' gives 'Finish', and
\* 'vk' and 'x' give the empty name.
C20_PrefixStrippedAlways ==
    [][(last' = "genCmd" /\ featureName # None) =>
          LET raw   == commands'[Len(commands')].name
              proto == feature_protos'[Len(feature_protos) + 1]
          IN  /\ err' = "none"
              /\ Len(feature_protos') >= Len(feature_protos) + 3
              /\ proto.k = "Proto"
              /\ proto.name = Drop2(Chars(raw))
              /\ raw = "glFinish" => proto.name = << "F", "i", "n", "i", "s", "h" >>
              /\ raw \in { "vk", "x" } => proto.name = << >>]_vars

\* 'x' and then 'glFinish' were visited in one feature.
C20_Witness ==
    /\ last = "genCmd" /\ err = "none"
    /\ Len(commands) = 2
    /\ commands[1].name = "x" /\ commands[2].name = "glFinish"
    /\ ProtoNamesOf(feature_protos) = << << >>, << "F", "i", "n", "i", "s", "h" >> >>

\* C21: over any sequence of hook calls no type name is in both
\* dispatchable_objects and non_dispatchable_objects.
C21_GlobalListsDisjoint ==
    Range(dispatchable_objects) \cap Range(non_dispatchable_objects) = {}

\* Both lists are filled, and a second command brought the handles of the
\* first one again.
C21_Witness ==
    /\ last = "genCmd" /\ err = "none"
    /\ Len(commands) = 2
    /\ commands[1].name = "vkCreateFence" /\ commands[2].name = "vkWaitForFences"
    /\ InList("VkFence", non_dispatchable_objects)
    /\ InList("VkDevice", dispatchable_objects)
    /\ InList("VkInstance", dispatchable_objects)

\* Index of the <type> element the category lookup resolves t to: the first
\* one named t by its <name> child or by its name attribute (0: none).
CategoryEntry(t) ==
    LET hits == { i \in 1..Len(TypeTable) :
                    \/ (TypeTable[i].name # None /\ TypeTable[i].name = t)
                    \/ TypeTable[i].attr_name = t }
    IN  IF hits = {} THEN 0 ELSE CHOOSE i \in hits : \A j \in hits : i <= j

\* Index of the <type> element the handle-kind lookup resolves t to: the
\* first one of category 'handle' with a <name> child of text t (0: none).
KindEntry(t) ==
    LET hits == { i \in 1..Len(TypeTable) :
                    TypeTable[i].name = t /\ TypeTable[i].category = "handle" }
    IN  IF hits = {} THEN 0 ELSE CHOOSE i \in hits : \A j \in hits : i <= j

\* C22: for every type among the parameters of the visited commands that
\* getTypeCategory reports as a handle, the handle-kind lookup resolves the
\* name to the element the category lookup resolved it to, and when that
\* element declares VK_DEFINE_NON_DISPATCHABLE_HANDLE the type is classified
\* non-dispatchable by isHandleTypeNonDispatchable.
C22_LookupsAgree ==
    \A t \in VisitedHandles :
        /\ KindEntry(t) = CategoryEntry(t)
        /\ TypeTable[CategoryEntry(t)].type = "VK_DEFINE_NON_DISPATCHABLE_HANDLE"
              => isHandleTypeNonDispatchable(t)

\* C23: after the selector step, for every selector, common_exts holds
\* exactly the names routed to common and non_exported_exts exactly the
\* names routed to other, as before the step.
C23_BucketsUnchangedBySelector ==
    pc = "selected" =>
        /\ script.common_exts = Routed("common_exts")
        /\ script.non_exported_exts = Routed("non_exported_exts")

=============================================================================
